---- MODULE Spec2Model ----
(***************************************************************************)
(* Model of storage_media.py: USB block-device discovery, mount-table      *)
(* parsing, correlation of the two and the digest report.                  *)
(*                                                                         *)
(* Text is a sequence of symbols.  A symbol is a whitespace character      *)
(* (" " or "\n"), the path separator "/", one decimal digit, or an         *)
(* indivisible chunk of other characters ("dev", "sdb1", "on", ...).       *)
(* Python objects that can be None are tagged records (PyNone, PyBool,     *)
(* PyInt, PyStr, PyFloat).  An object reference held in a list is the      *)
(* index of the object in the list that owns it.                           *)
(***************************************************************************)
EXTENDS Integers, Sequences, FiniteSets, TLC

\* ------------------------------------------------------------------ bounds
MaxMountLines == 2
MaxRows == 2

\* --------------------------------------------------------------- constants
SectorBytes == 512
MinorsPerDisk == 16
HeaderLines == 2
BytesPerGb == 1073741824

\* ------------------------------------------------------------ Python values
PyNone == [t |-> "NoneType"]
PyBool(b) == [t |-> "bool", b |-> b]
PyInt(n) == [t |-> "int", n |-> n]
PyStr(s) == [t |-> "str", s |-> s]
PyFloat(num, den) == [t |-> "float", num |-> num, den |-> den]

\* ------------------------------------------------------------- str methods
Whitespace == {" ", "\n"}

Digits == <<"0", "1", "2", "3", "4", "5", "6", "7", "8", "9">>

Sub(s, a, b) == SubSeq(s, a, b)

\* s.split(sep) for a one-symbol separator: n separators give n+1 pieces.
RECURSIVE PySplit(_, _)
PySplit(s, sep) ==
    IF \A i \in 1..Len(s) : s[i] # sep
    THEN <<s>>
    ELSE LET i == CHOOSE k \in 1..Len(s) :
                      s[k] = sep /\ \A m \in 1..(k - 1) : s[m] # sep
         IN <<Sub(s, 1, i - 1)>> \o PySplit(Sub(s, i + 1, Len(s)), sep)

\* s.strip()
RECURSIVE LStrip(_)
LStrip(s) == IF s # <<>> /\ Head(s) \in Whitespace THEN LStrip(Tail(s)) ELSE s

RECURSIVE RStrip(_)
RStrip(s) ==
    IF s # <<>> /\ s[Len(s)] \in Whitespace THEN RStrip(Sub(s, 1, Len(s) - 1)) ELSE s

PyStrip(s) == LStrip(RStrip(s))

\* s.split(): pieces between runs of whitespace, no empty piece.
RECURSIVE PySplitWs(_)
PySplitWs(s) ==
    LET t == LStrip(s) IN
    IF t = <<>> THEN <<>>
    ELSE IF \A i \in 1..Len(t) : t[i] \notin Whitespace
         THEN <<t>>
         ELSE LET i == CHOOSE k \in 1..Len(t) :
                           t[k] \in Whitespace /\ \A m \in 1..(k - 1) : t[m] \notin Whitespace
              IN <<Sub(t, 1, i - 1)>> \o PySplitWs(Sub(t, i + 1, Len(t)))

\* f.readlines(): the lines of a text, each keeping its "\n".
RECURSIVE ReadLines(_)
ReadLines(s) ==
    IF s = <<>> THEN <<>>
    ELSE IF \A i \in 1..Len(s) : s[i] # "\n"
         THEN <<s>>
         ELSE LET i == CHOOSE k \in 1..Len(s) :
                           s[k] = "\n" /\ \A m \in 1..(k - 1) : s[m] # "\n"
              IN <<Sub(s, 1, i)>> \o ReadLines(Sub(s, i + 1, Len(s)))

\* hay.find(needle): 0-based position of the first occurrence, -1 when none.
PyFind(hay, needle) ==
    LET hits == {i \in 1..(Len(hay) - Len(needle) + 1) :
                     Sub(hay, i, i + Len(needle) - 1) = needle}
    IN IF hits = {} THEN -1
       ELSE (CHOOSE i \in hits : \A j \in hits : i <= j) - 1

\* os.path.basename(p): what follows the last "/".
Basename(p) ==
    LET slashes == {i \in 1..Len(p) : p[i] = "/"}
    IN IF slashes = {} THEN p
       ELSE Sub(p, (CHOOSE i \in slashes : \A j \in slashes : j <= i) + 1, Len(p))

\* int(s) of a stripped text of decimal digits; -1 stands for ValueError.
DigitValue(c) == (CHOOSE i \in 1..10 : Digits[i] = c) - 1

IsDigit(c) == \E i \in 1..10 : Digits[i] = c

RECURSIVE DigitsValue(_)
DigitsValue(s) ==
    IF s = <<>> THEN 0
    ELSE 10 * DigitsValue(Sub(s, 1, Len(s) - 1)) + DigitValue(s[Len(s)])

PyIntOf(s) ==
    LET t == PyStrip(s) IN
    IF t # <<>> /\ \A i \in 1..Len(t) : IsDigit(t[i]) THEN DigitsValue(t) ELSE -1

\* parse("{} on {} type {} {}", line): four non-empty, non-greedy fields around
\* the literals " on ", " type " and " ", matched against the whole line.
\* The result is PyNone when the line does not match.
LitOn == <<" ", "on", " ">>
LitType == <<" ", "type", " ">>

\* The positions where a literal starts in the line.
LitAt(line, lit) ==
    {i \in 1..(Len(line) - Len(lit) + 1) : Sub(line, i, i + Len(lit) - 1) = lit}

\* Every way to cut the line into the four fields: where " on ", " type " and the
\* last " " start.
ParseSplits(line) ==
    {ijk \in LitAt(line, LitOn) \X LitAt(line, LitType) \X LitAt(line, <<" ">>) :
        /\ ijk[1] >= 2
        /\ ijk[2] >= ijk[1] + 4
        /\ ijk[3] >= ijk[2] + 4
        /\ ijk[3] < Len(line)}

Before(a, b) ==
    \/ a[1] < b[1]
    \/ a[1] = b[1] /\ a[2] < b[2]
    \/ a[1] = b[1] /\ a[2] = b[2] /\ a[3] <= b[3]

ParseMountLine(line) ==
    LET c == ParseSplits(line) IN
    IF c = {} THEN PyNone
    ELSE LET m == CHOOSE a \in c : \A b \in c : Before(a, b)
         IN [t |-> "Result",
             fixed |-> << Sub(line, 1, m[1] - 1),
                          Sub(line, m[1] + 3, m[2] - 1),
                          Sub(line, m[2] + 3, m[3] - 1),
                          Sub(line, m[3] + 1, Len(line)) >>]

IsNone(v) == v.t = "NoneType"

\* str(v) as "{}".format(v) renders it.  A float is rendered symbolically as the
\* quotient it holds.
RECURSIVE DigitsOf(_)
DigitsOf(n) ==
    IF n < 10 THEN <<Digits[n + 1]>> ELSE DigitsOf(n \div 10) \o <<Digits[(n % 10) + 1]>>

PyFormat(v) ==
    CASE v.t = "NoneType" -> <<"None">>
      [] v.t = "bool" -> IF v.b THEN <<"True">> ELSE <<"False">>
      [] v.t = "int" -> DigitsOf(v.n)
      [] v.t = "str" -> v.s
      [] v.t = "float" -> <<"float(">> \o DigitsOf(v.num) \o <<"/">> \o DigitsOf(v.den) \o <<")">>

\* ------------------------------------------------------ the host's contents
NoFile == [exists |-> FALSE, text |-> <<>>]
File(text) == [exists |-> TRUE, text |-> text]

DevPath(name) == <<"/", "dev", "/">> \o name
MediaPath(name) == <<"/", "media", "/">> \o name

NameSda == <<"sda">>
NameSdb == <<"sdb">>
NameSdb1 == <<"sdb1">>
NameSdc == <<"sdc">>
DeviceNames == {NameSda, NameSdb, NameSdb1, NameSdc}

PartSda1 == DevPath(<<"sda1">>)
PartSdb1 == DevPath(<<"sdb1">>)
PartSdc1 == DevPath(<<"sdc1">>)
PartitionIds == {PartSda1, PartSdb1, PartSdc1}

\* One line of `mount`: SOURCE on MOUNTPOINT type FSTYPE OPTIONS
MountLine(src, mp, fs, opts) == src \o LitOn \o mp \o LitType \o fs \o <<" ">> \o opts

LineSdb1 == MountLine(PartSdb1, MediaPath(NameSdb), <<"vfat">>, <<"rw,relatime">>)
LineSdc1 == MountLine(PartSdc1, MediaPath(NameSdc), <<"vfat">>, <<"rw">>)
LineSda1 == MountLine(PartSda1, <<"/">>, <<"ext4">>, <<"rw">>)
LineNoType == PartSdb1 \o LitOn \o MediaPath(NameSdb)
LineBlank == <<>>
MountLines == {LineSdb1, LineSdc1, LineSda1, LineNoType, LineBlank}

RECURSIVE JoinLines(_)
JoinLines(ls) == IF ls = <<>> THEN <<>> ELSE Head(ls) \o <<"\n">> \o JoinLines(Tail(ls))

SeqsUpTo(S, n) == UNION {[1..k -> S] : k \in 0..n}

\* /proc/partitions: two header lines, then rows "major minor #blocks name".
PartitionsHeader ==
    <<"major", " ", "minor", " ", "#blocks", " ", "name", "\n", "\n">>

Row(minor, name) == <<" ", "8", " ">> \o minor \o <<" ", "9", "7", " ">> \o name

RowSda == Row(<<"0">>, NameSda)
RowSdb == Row(<<"1", "6">>, NameSdb)
RowSdb1 == Row(<<"1", "7">>, NameSdb1)
RowSdc == Row(<<"3", "2">>, NameSdc)
RowShort == <<" ", "8", " ", "4", "8">>
UsbRows == {RowSdb, RowSdc}
AllRows == {RowSda, RowSdb, RowSdb1, RowSdc, RowShort}

\* /sys/class/block/<name>: a link into /sys/devices, or no link.
UsbMarker == <<"/", "usb">>
SysDevices == <<"/", "sys", "/", "devices", "/", "pci">>
NoLink == [islink |-> FALSE, realpath |-> <<>>]
UsbLink(tail) == [islink |-> TRUE, realpath |-> SysDevices \o <<"/", "usb", "1">> \o tail]
AtaLink(tail) == [islink |-> TRUE, realpath |-> SysDevices \o <<"/", "ata", "1">> \o tail]

DefaultClassBlock ==
    [n \in DeviceNames |->
        CASE n = NameSda -> AtaLink(<<"/", "sda">>)
          [] n = NameSdb -> UsbLink(<<"/", "sdb">>)
          [] n = NameSdb1 -> UsbLink(<<"/", "sdb", "/", "sdb1">>)
          [] n = NameSdc -> UsbLink(<<"/", "sdc">>)]

SdcLinks == {UsbLink(<<"/", "sdc">>), AtaLink(<<"/", "sdc">>), NoLink}

\* `fdisk -l <device>`: exit status and output.
FdiskHead(name) == <<"Disk", " ">> \o DevPath(name) \o <<"\n">>
FdiskTable == <<"Device", " ", "Boot", " ", "Start", "\n">>
FdiskEntry(part) == part \o <<" ", " ", "*", " ", "2048">>

FdiskGood(name, part) ==
    [exit |-> 0, out |-> FdiskHead(name) \o FdiskTable \o FdiskEntry(part) \o <<"\n">>]
FdiskNoNewline(name, part) ==
    [exit |-> 0, out |-> FdiskHead(name) \o FdiskTable \o FdiskEntry(part)]
FdiskEntryThenText(name, part) ==
    [exit |-> 0, out |-> FdiskHead(name) \o FdiskEntry(part) \o <<"\n", "Done">>]
FdiskEntryThenLine(name, part) ==
    [exit |-> 0, out |-> FdiskHead(name) \o FdiskEntry(part) \o <<"\n", "Done", "\n">>]
FdiskNoTable(name) ==
    [exit |-> 0, out |-> FdiskHead(name) \o <<"Units", " ", "sectors", "\n">>]
FdiskBlankEnd(name) ==
    [exit |-> 0, out |-> FdiskHead(name) \o <<"\n">>]
FdiskOneLine == [exit |-> 0, out |-> <<"Disk">>]
FdiskSilent == [exit |-> 0, out |-> <<>>]
FdiskFailed == [exit |-> 1, out |-> <<>>]

FdiskOutcomes(name, part) ==
    {FdiskGood(name, part), FdiskNoNewline(name, part), FdiskEntryThenText(name, part),
     FdiskEntryThenLine(name, part), FdiskNoTable(name), FdiskBlankEnd(name), FdiskOneLine, FdiskSilent, FdiskFailed}

DefaultFdisk ==
    [n \in DeviceNames |->
        CASE n = NameSda -> FdiskGood(n, PartSda1)
          [] n = NameSdb -> FdiskGood(n, PartSdb1)
          [] n = NameSdb1 -> FdiskFailed
          [] n = NameSdc -> FdiskGood(n, PartSdc1)]

\* /sys/block/<name>/{removable,size,device/vendor,device/model}
RemovableFiles == {NoFile, File(<<"1", "\n">>), File(<<"0", "\n">>)}
SizeFiles == {NoFile, File(<<"0", "\n">>), File(<<"4", "0", "\n">>)}
VendorFiles == {NoFile, File(<<"\n">>), File(<<"Acme", " ", " ", "\n">>)}
ModelFiles == {NoFile, File(<<"\n">>), File(<<"Flash", " ", "Disk", "\n">>)}

SysBlockDirs ==
    [removable : RemovableFiles, size : SizeFiles, vendor : VendorFiles, model : ModelFiles]

DefaultDir ==
    [removable |-> File(<<"1", "\n">>), size |-> File(<<"4", "0", "\n">>),
     vendor |-> File(<<"Acme", " ", " ", "\n">>), model |-> File(<<"Flash", " ", "Disk", "\n">>)]

DefaultSysBlock == [n \in DeviceNames |-> DefaultDir]

\* -------------------------------------------------------------------- state
VARIABLES
    entry,                  \* which program runs: "main" (storage_media.py) or "client"
    mount_cmd,              \* `mount`: [exit, out]
    proc_partitions,        \* text of /proc/partitions
    class_block,            \* name -> /sys/class/block/<name>
    fdisk_cmd,              \* name -> `fdisk -l /dev/<name>`: [exit, out]
    sys_block,              \* name -> the attribute files of /sys/block/<name>
    ismount,                \* the paths that are mount points (os.path.ismount)
    pc,                     \* position of the running program
    error,                  \* the exception that ended it, "none" otherwise
    lines,                  \* probe_mountpoints: lines of mount_output not yet parsed
    mountpoint_list,        \* probe_mountpoints: Mountpoint objects so far
    rows,                   \* probe_media_devices: rows not yet scanned
    devices,                \* probe_media_devices: device paths kept
    todo,                   \* probe_media_devices: device paths not yet constructed
    media_devices_list,     \* probe_media_devices: MediaDevice objects so far
    mount_idx,              \* correlation: position of the outer loop
    storage_media_usb_list, \* correlation: StorageMediaUsb objects so far
    printed,                \* __main__: digests printed
    ret                     \* client: the last method call and what it returned

vars ==
    <<entry, mount_cmd, proc_partitions, class_block, fdisk_cmd, sys_block, ismount,
      pc, error, lines, mountpoint_list, rows, devices, todo, media_devices_list,
      mount_idx, storage_media_usb_list, printed, ret>>

envVars == <<entry, mount_cmd, proc_partitions, class_block, fdisk_cmd, sys_block>>

\* The mount points the mount table lists.
MountedPaths(text) ==
    LET pieces == PySplit(text, "\n")
        parsed == {ParseMountLine(pieces[i]) : i \in 1..Len(pieces)}
    IN {p.fixed[2] : p \in {q \in parsed : ~IsNone(q)}}

ProgramStart ==
    /\ pc = "start"
    /\ error = "none"
    /\ lines = <<>>
    /\ mountpoint_list = <<>>
    /\ rows = <<>>
    /\ devices = <<>>
    /\ todo = <<>>
    /\ media_devices_list = <<>>
    /\ mount_idx = 1
    /\ storage_media_usb_list = <<>>
    /\ printed = <<>>
    /\ ret = [op |-> "none", dev |-> 0, value |-> PyNone]
    /\ ismount = MountedPaths(mount_cmd.out)

\* Hosts that differ in the mount table and in the USB disks listed.
InitMounts ==
    /\ entry = "main"
    /\ \E ls \in SeqsUpTo(MountLines, MaxMountLines) :
          mount_cmd = [exit |-> 0, out |-> JoinLines(ls)]
    /\ \E rs \in SeqsUpTo(UsbRows, MaxRows) :
          proc_partitions = PartitionsHeader \o JoinLines(rs)
    /\ class_block = DefaultClassBlock
    /\ fdisk_cmd = DefaultFdisk
    /\ sys_block = DefaultSysBlock

\* A host whose `mount` command fails.
InitMountFails ==
    /\ entry = "main"
    /\ mount_cmd = [exit |-> 1, out |-> <<>>]
    /\ proc_partitions = PartitionsHeader \o JoinLines(<<RowSdb>>)
    /\ class_block = DefaultClassBlock
    /\ fdisk_cmd = DefaultFdisk
    /\ sys_block = DefaultSysBlock

\* Hosts that differ in the partition listing, the class links and fdisk's answer.
InitDisks ==
    /\ entry = "main"
    /\ mount_cmd = [exit |-> 0, out |-> JoinLines(<<LineSdb1>>)]
    /\ \E rs \in SeqsUpTo(AllRows, MaxRows) :
          proc_partitions = PartitionsHeader \o JoinLines(rs)
    /\ \E l \in SdcLinks : class_block = [DefaultClassBlock EXCEPT ![NameSdc] = l]
    /\ \E f \in FdiskOutcomes(NameSdb, PartSdb1) :
          fdisk_cmd = [DefaultFdisk EXCEPT ![NameSdb] = f]
    /\ sys_block = DefaultSysBlock

\* Hosts that differ in the attribute files of one of two USB disks; the other
\* disk publishes neither vendor nor model.
InitSysfs ==
    /\ entry = "main"
    /\ mount_cmd = [exit |-> 0, out |-> JoinLines(<<LineSdc1, LineSdb1>>)]
    /\ proc_partitions = PartitionsHeader \o JoinLines(<<RowSdb, RowSdc>>)
    /\ class_block = DefaultClassBlock
    /\ fdisk_cmd = DefaultFdisk
    /\ \E d \in SysBlockDirs :
          sys_block = [DefaultSysBlock EXCEPT
                          ![NameSdb] = d,
                          ![NameSdc] = [DefaultDir EXCEPT !.vendor = NoFile, !.model = NoFile]]

\* A client of the module (example.py is one): probes the disks, then mounts and
\* unmounts them.
InitClient ==
    /\ entry = "client"
    /\ \E ls \in SeqsUpTo({LineSdb1, LineSdc1}, MaxMountLines) :
          mount_cmd = [exit |-> 0, out |-> JoinLines(ls)]
    /\ \E rs \in SeqsUpTo(UsbRows, MaxRows) :
          proc_partitions = PartitionsHeader \o JoinLines(rs)
    /\ class_block = DefaultClassBlock
    /\ fdisk_cmd = DefaultFdisk
    /\ sys_block = DefaultSysBlock

Init ==
    /\ InitMounts \/ InitMountFails \/ InitDisks \/ InitSysfs \/ InitClient
    /\ ProgramStart

\* ------------------------------------------------------------------ raising
Raise(exc) ==
    /\ pc' = "raised"
    /\ error' = exc

\* ------------------------------------------------- Mountpoint.probe_mountpoints
Mountpoint(partition, mountpoint, fs_format, details) ==
    [partition |-> partition, mountpoint |-> mountpoint,
     fs_format |-> fs_format, details |-> details]

\* subprocess.check_output(["mount"]) and mount_output.split('\n')
RunMount ==
    /\ pc = "start"
    /\ entry = "main"
    /\ IF mount_cmd.exit # 0
       THEN Raise("CalledProcessError") /\ UNCHANGED lines
       ELSE /\ pc' = "probe_mountpoints"
            /\ lines' = PySplit(mount_cmd.out, "\n")
            /\ UNCHANGED error
    /\ UNCHANGED <<envVars, ismount, mountpoint_list, rows, devices, todo,
                   media_devices_list, mount_idx, storage_media_usb_list, printed, ret>>

\* Faulty variant: a line that parse() rejects is skipped.
MountLineStepSkip(line) ==
    IF line = <<>> \/ IsNone(ParseMountLine(line)) THEN [do |-> "skip"]
    ELSE [do |-> "append",
          obj |-> Mountpoint(ParseMountLine(line).fixed[1], ParseMountLine(line).fixed[2],
                             ParseMountLine(line).fixed[3], ParseMountLine(line).fixed[4])]

\* What one pass of the loop over the lines does with `line`: "skip" for an empty
\* line, "raise" when parse() gave None and None[0] is evaluated, else "append".
MountLineStep(line) ==
    IF line = <<>> THEN [do |-> "skip"]
    ELSE LET parsed_mountpoint_info == ParseMountLine(line) IN
         IF IsNone(parsed_mountpoint_info)
         THEN [do |-> "raise", exc |-> "TypeError"]
         ELSE [do |-> "append",
               obj |-> Mountpoint(parsed_mountpoint_info.fixed[1],
                                  parsed_mountpoint_info.fixed[2],
                                  parsed_mountpoint_info.fixed[3],
                                  parsed_mountpoint_info.fixed[4])]

ProbeMountLine ==
    /\ pc = "probe_mountpoints"
    /\ lines # <<>>
    /\ LET step == MountLineStep(Head(lines)) IN
       IF step.do = "raise"
       THEN Raise(step.exc) /\ UNCHANGED <<lines, mountpoint_list>>
       ELSE /\ lines' = Tail(lines)
            /\ mountpoint_list' =
                  IF step.do = "append" THEN Append(mountpoint_list, step.obj)
                  ELSE mountpoint_list
            /\ UNCHANGED <<pc, error>>
    /\ UNCHANGED <<envVars, ismount, rows, devices, todo, media_devices_list,
                   mount_idx, storage_media_usb_list, printed, ret>>

\* ----------------------------------------------- MediaDevice.probe_media_devices
\* f.readlines()[2:], entered when probe_mountpoints has returned (main) or first
\* (client).
ReadPartitions ==
    /\ \/ pc = "probe_mountpoints" /\ lines = <<>>
       \/ pc = "start" /\ entry = "client"
    /\ LET all == ReadLines(proc_partitions) IN
       rows' = IF Len(all) <= HeaderLines THEN <<>> ELSE Sub(all, HeaderLines + 1, Len(all))
    /\ pc' = "scan"
    /\ UNCHANGED <<envVars, ismount, error, lines, mountpoint_list, devices, todo,
                   media_devices_list, mount_idx, storage_media_usb_list, printed, ret>>

ClassBlock(name) == IF name \in DOMAIN class_block THEN class_block[name] ELSE NoLink

\* Faulty variant: the minor number is not looked at.
KeepsRowAnyMinor(minor_number, device_name) ==
    /\ ClassBlock(device_name).islink
    /\ PyFind(ClassBlock(device_name).realpath, UsbMarker) > 0

\* Whether the row's disk is kept: minor number, class link, "/usb" in its real path.
KeepsRow(minor_number, device_name) ==
    /\ minor_number % MinorsPerDisk = 0
    /\ ClassBlock(device_name).islink
    /\ PyFind(ClassBlock(device_name).realpath, UsbMarker) > 0

\* What one pass of the loop over the rows does with `line`.
ScanRowStep(line) ==
    LET words == [i \in DOMAIN PySplitWs(line) |-> PyStrip(PySplitWs(line)[i])] IN
    IF Len(words) < 2 THEN [do |-> "raise", exc |-> "IndexError"]
    ELSE IF PyIntOf(words[2]) < 0 THEN [do |-> "raise", exc |-> "ValueError"]
    ELSE IF Len(words) < 4 THEN [do |-> "raise", exc |-> "IndexError"]
    ELSE IF KeepsRow(PyIntOf(words[2]), words[4])
         THEN [do |-> "append", device |-> DevPath(words[4])]
         ELSE [do |-> "skip"]

ScanRow ==
    /\ pc = "scan"
    /\ rows # <<>>
    /\ LET step == ScanRowStep(Head(rows)) IN
       IF step.do = "raise"
       THEN Raise(step.exc) /\ UNCHANGED <<rows, devices>>
       ELSE /\ rows' = Tail(rows)
            /\ devices' = IF step.do = "append" THEN Append(devices, step.device) ELSE devices
            /\ UNCHANGED <<pc, error>>
    /\ UNCHANGED <<envVars, ismount, lines, mountpoint_list, todo, media_devices_list,
                   mount_idx, storage_media_usb_list, printed, ret>>

EndScan ==
    /\ pc = "scan"
    /\ rows = <<>>
    /\ pc' = "construct"
    /\ todo' = devices
    /\ UNCHANGED <<envVars, ismount, error, lines, mountpoint_list, rows, devices,
                   media_devices_list, mount_idx, storage_media_usb_list, printed, ret>>

\* --------------------------------------------------------- MediaDevice.__init__
FdiskRun(device) ==
    IF Basename(device) \in DOMAIN fdisk_cmd THEN fdisk_cmd[Basename(device)] ELSE FdiskFailed

SysBlockDir(device_name) ==
    IF device_name \in DOMAIN sys_block THEN sys_block[device_name]
    ELSE [removable |-> NoFile, size |-> NoFile, vendor |-> NoFile, model |-> NoFile]

\* Faulty variant: the last piece, [-1], is read.
FdiskPartitionLast(fdisk_output) ==
    LET pieces == PySplit(fdisk_output, "\n")
        words == PySplitWs(pieces[Len(pieces)])
    IN IF words = <<>> THEN PyNone ELSE PyStr(PyStrip(words[1]))

\* fdisk_output.split("\n")[-2].split()[0].strip(); PyNone stands for IndexError.
FdiskPartition(fdisk_output) ==
    LET pieces == PySplit(fdisk_output, "\n") IN
    IF Len(pieces) < 2 THEN PyNone
    ELSE LET words == PySplitWs(pieces[Len(pieces) - 1]) IN
         IF words = <<>> THEN PyNone ELSE PyStr(PyStrip(words[1]))

ReadRemovable(f) == IF f.exists THEN PyBool(PyStrip(f.text) = <<"1">>) ELSE PyNone

\* PyInt(-1) stands for the ValueError of int().
ReadSize(f) ==
    IF f.exists
    THEN IF PyIntOf(PyStrip(f.text)) < 0 THEN PyInt(-1)
         ELSE PyInt(PyIntOf(PyStrip(f.text)) * SectorBytes)
    ELSE PyNone

\* Faulty variant: an absent vendor file leaves the class default str().
ReadVendorDefault(f) == IF f.exists THEN PyStr(PyStrip(f.text)) ELSE PyStr(<<>>)

ReadVendor(f) == IF f.exists THEN PyStr(PyStrip(f.text)) ELSE PyNone

ReadModel(f) == IF f.exists THEN PyStr(PyStrip(f.text)) ELSE PyNone

\* Faulty variant: a failed or unreadable probe leaves the class default str()
\* as the partition.
MediaDeviceInitDegraded(device) ==
    LET device_name == Basename(device)
        fdisk == FdiskRun(device)
        dir == SysBlockDir(device_name)
    IN [ok |-> TRUE,
        obj |-> [device |-> device,
                 device_name |-> device_name,
                 block_path |-> <<"/", "sys", "/", "block", "/">> \o device_name,
                 media_path |-> <<"/", "media", "/">> \o device_name,
                 partition |-> IF fdisk.exit # 0 \/ IsNone(FdiskPartition(fdisk.out))
                               THEN <<>> ELSE FdiskPartition(fdisk.out).s,
                 removable |-> ReadRemovable(dir.removable),
                 size |-> ReadSize(dir.size),
                 vendor |-> ReadVendor(dir.vendor),
                 model |-> ReadModel(dir.model)]]

\* The constructor: [ok |-> TRUE, obj |-> the MediaDevice] or [ok |-> FALSE, exc].
MediaDeviceInit(device) ==
    LET device_name == Basename(device)
        block_path == <<"/", "sys", "/", "block", "/">> \o device_name
        media_path == <<"/", "media", "/">> \o device_name
        fdisk == FdiskRun(device)
        dir == SysBlockDir(device_name)
    IN IF fdisk.exit # 0 THEN [ok |-> FALSE, exc |-> "CalledProcessError"]
       ELSE IF IsNone(FdiskPartition(fdisk.out)) THEN [ok |-> FALSE, exc |-> "IndexError"]
       ELSE IF ReadSize(dir.size) = PyInt(-1) THEN [ok |-> FALSE, exc |-> "ValueError"]
       ELSE [ok |-> TRUE,
             obj |-> [device |-> device,
                      device_name |-> device_name,
                      block_path |-> block_path,
                      media_path |-> media_path,
                      partition |-> FdiskPartition(fdisk.out).s,
                      removable |-> ReadRemovable(dir.removable),
                      size |-> ReadSize(dir.size),
                      vendor |-> ReadVendor(dir.vendor),
                      model |-> ReadModel(dir.model)]]

\* media_devices_list.append(MediaDevice(device))
ConstructDevice ==
    /\ pc = "construct"
    /\ todo # <<>>
    /\ LET made == MediaDeviceInit(Head(todo)) IN
       IF made.ok
       THEN /\ media_devices_list' = Append(media_devices_list, made.obj)
            /\ todo' = Tail(todo)
            /\ UNCHANGED <<pc, error>>
       ELSE Raise(made.exc) /\ UNCHANGED <<todo, media_devices_list>>
    /\ UNCHANGED <<envVars, ismount, lines, mountpoint_list, rows, devices,
                   mount_idx, storage_media_usb_list, printed, ret>>

\* return media_devices_list
EndConstruct ==
    /\ pc = "construct"
    /\ todo = <<>>
    /\ pc' = IF entry = "main" THEN "correlate" ELSE "client"
    /\ UNCHANGED <<envVars, ismount, error, lines, mountpoint_list, rows, devices, todo,
                   media_devices_list, mount_idx, storage_media_usb_list, printed, ret>>

\* ----------------------------- StorageMediaUsb.probe_storage_media_usb_devices
StorageMediaUsb(media_device, mountable) ==
    [media_device |-> media_device, mountpoint |-> mountable]

\* Faulty variant: only the first matching MediaDevice is taken.
MatchingPartitionListFirst(mountable) ==
    LET Matches(x) == media_devices_list[x].partition = mountpoint_list[mountable].partition
        all == SelectSeq([x \in 1..Len(media_devices_list) |-> x], Matches)
    IN IF all = <<>> THEN <<>> ELSE <<Head(all)>>

\* Faulty variant: the matches are taken last disk first.
MatchingPartitionListReversed(mountable) ==
    LET Matches(x) == media_devices_list[x].partition = mountpoint_list[mountable].partition
        all == SelectSeq([x \in 1..Len(media_devices_list) |-> x], Matches)
    IN [k \in 1..Len(all) |-> all[Len(all) + 1 - k]]

\* [x for x in media_device_list if str(x.partition) == str(mountable.partition)],
\* as references into media_device_list.
MatchingPartitionList(mountable) ==
    LET Matches(x) == media_devices_list[x].partition = mountpoint_list[mountable].partition
    IN SelectSeq([x \in 1..Len(media_devices_list) |-> x], Matches)

\* Faulty variant: a Mountpoint that matches no MediaDevice is an error.
CorrelateMountableStrict ==
    /\ pc = "correlate"
    /\ mount_idx <= Len(mountpoint_list)
    /\ LET Matches(x) == media_devices_list[x].partition = mountpoint_list[mount_idx].partition
           matching_partition_list == SelectSeq([x \in 1..Len(media_devices_list) |-> x], Matches)
       IN IF matching_partition_list = <<>>
          THEN Raise("LookupError") /\ UNCHANGED <<storage_media_usb_list, mount_idx>>
          ELSE /\ storage_media_usb_list' =
                      storage_media_usb_list \o
                      [k \in 1..Len(matching_partition_list) |->
                          [media_device |-> matching_partition_list[k], mountpoint |-> mount_idx]]
               /\ mount_idx' = mount_idx + 1
               /\ UNCHANGED <<pc, error>>
    /\ UNCHANGED <<envVars, ismount, lines, mountpoint_list, rows, devices, todo,
                   media_devices_list, printed, ret>>

\* One pass of the outer loop: every match of the mountable is appended.
CorrelateMountable ==
    /\ pc = "correlate"
    /\ mount_idx <= Len(mountpoint_list)
    /\ LET matching_partition_list == MatchingPartitionList(mount_idx) IN
       storage_media_usb_list' =
           storage_media_usb_list \o
           [k \in 1..Len(matching_partition_list) |->
               StorageMediaUsb(matching_partition_list[k], mount_idx)]
    /\ mount_idx' = mount_idx + 1
    /\ UNCHANGED <<envVars, ismount, pc, error, lines, mountpoint_list, rows, devices, todo,
                   media_devices_list, printed, ret>>

\* return storage_media_usb_list
EndCorrelate ==
    /\ pc = "correlate"
    /\ mount_idx > Len(mountpoint_list)
    /\ pc' = "print"
    /\ UNCHANGED <<envVars, ismount, error, lines, mountpoint_list, rows, devices, todo,
                   media_devices_list, mount_idx, storage_media_usb_list, printed, ret>>

\* ------------------------------------------------------- StorageMediaUsb.digest
\* Faulty variant: an unknown size counts as 0 GB.
GetSizeGbLenient(media_device) ==
    IF IsNone(media_device.size) THEN PyFloat(0, BytesPerGb)
    ELSE PyFloat(media_device.size.n, BytesPerGb)

\* self.media_device.size / 1024 ** 3; PyNone stands for the TypeError of None / int.
GetSizeGb(media_device) ==
    IF IsNone(media_device.size) THEN PyNone ELSE PyFloat(media_device.size.n, BytesPerGb)

\* The arguments of format(), in the order they are passed.
DigestFields(usb) ==
    LET md == media_devices_list[usb.media_device]
        mp == mountpoint_list[usb.mountpoint]
    IN << <<"mountpoint", PyStr(mp.mountpoint)>>,
          <<"partition", PyStr(mp.partition)>>,
          <<"size_bytes", md.size>>,
          <<"size_gb", GetSizeGb(md)>>,
          <<"format", PyStr(mp.fs_format)>>,
          <<"model", md.model>>,
          <<"vendor", md.vendor>>,
          <<"device_name", PyStr(md.device_name)>>,
          <<"block_path", PyStr(md.block_path)>>,
          <<"media_path", PyStr(md.media_path)>> >>

RECURSIVE FormatFields(_)
FormatFields(fs) ==
    IF fs = <<>> THEN <<>>
    ELSE <<Head(fs)[1], ":">> \o PyFormat(Head(fs)[2]) \o
         (IF Len(fs) = 1 THEN <<>> ELSE <<" ">> \o FormatFields(Tail(fs)))

\* digest(): [ok |-> TRUE, text] or [ok |-> FALSE, exc].
Digest(usb) ==
    IF IsNone(GetSizeGb(media_devices_list[usb.media_device]))
    THEN [ok |-> FALSE, exc |-> "TypeError"]
    ELSE [ok |-> TRUE, text |-> FormatFields(DigestFields(usb))]

\* print(device.digest()) for the next object of usb_storage_media
PrintDigest ==
    /\ pc = "print"
    /\ Len(printed) < Len(storage_media_usb_list)
    /\ LET d == Digest(storage_media_usb_list[Len(printed) + 1]) IN
       IF d.ok
       THEN printed' = Append(printed, d.text) /\ UNCHANGED <<pc, error>>
       ELSE Raise(d.exc) /\ UNCHANGED printed
    /\ UNCHANGED <<envVars, ismount, lines, mountpoint_list, rows, devices, todo,
                   media_devices_list, mount_idx, storage_media_usb_list, ret>>

EndPrint ==
    /\ pc = "print"
    /\ Len(printed) = Len(storage_media_usb_list)
    /\ pc' = "exit"
    /\ UNCHANGED <<envVars, ismount, error, lines, mountpoint_list, rows, devices, todo,
                   media_devices_list, mount_idx, storage_media_usb_list, printed, ret>>

\* ------------------------------------- MediaDevice.mount_partition / unmount
IsMounted(media_device) == media_device.media_path \in ismount

\* mount_partition(): mkdir -p, mount, then is_mounted(); the mount command may
\* succeed or fail.  Nothing is returned when the path is already mounted.
MountPartition(i) ==
    /\ pc = "client"
    /\ LET self == media_devices_list[i] IN
       IF ~IsMounted(self)
       THEN \E mounted \in BOOLEAN :
               /\ ismount' = IF mounted THEN ismount \cup {self.media_path} ELSE ismount
               /\ ret' = [op |-> "mount_partition", dev |-> i, value |-> PyBool(mounted)]
       ELSE /\ ret' = [op |-> "mount_partition", dev |-> i, value |-> PyNone]
            /\ UNCHANGED ismount
    /\ UNCHANGED <<envVars, pc, error, lines, mountpoint_list, rows, devices, todo,
                   media_devices_list, mount_idx, storage_media_usb_list, printed>>

\* unmount_partition(): umount, then not is_mounted(); umount may succeed or fail.
UnmountPartition(i) ==
    /\ pc = "client"
    /\ LET self == media_devices_list[i] IN
       \E unmounted \in BOOLEAN :
          /\ ismount' = IF unmounted THEN ismount \ {self.media_path} ELSE ismount
          /\ ret' = [op |-> "unmount_partition", dev |-> i,
                     value |-> PyBool(self.media_path \notin ismount')]
    /\ UNCHANGED <<envVars, pc, error, lines, mountpoint_list, rows, devices, todo,
                   media_devices_list, mount_idx, storage_media_usb_list, printed>>

\* ------------------------------------------------------------ specification
Next ==
    \/ RunMount
    \/ ProbeMountLine
    \/ ReadPartitions
    \/ ScanRow
    \/ EndScan
    \/ ConstructDevice
    \/ EndConstruct
    \/ CorrelateMountable
    \/ EndCorrelate
    \/ PrintDigest
    \/ EndPrint
    \/ \E i \in 1..Len(media_devices_list) : MountPartition(i)
    \/ \E i \in 1..Len(media_devices_list) : UnmountPartition(i)

Spec == Init /\ [][Next]_vars

\* ---------------------------------------------------------------- properties
\* The phases in which a function has returned its list.
DevicesReturned == pc \in {"correlate", "client", "print", "exit"}
CorrelationReturned == pc \in {"print", "exit"}

SamePartition(d, m) == media_devices_list[d].partition = mountpoint_list[m].partition

MatchCount(m) == Cardinality({d \in 1..Len(media_devices_list) : SamePartition(d, m)})

RECURSIVE SumMatchCounts(_)
SumMatchCounts(n) == IF n = 0 THEN 0 ELSE SumMatchCounts(n - 1) + MatchCount(n)

\* C1: the number of StorageMediaUsb objects the correlation returns is the sum,
\* over the Mountpoint objects, of the number of MediaDevice objects with the same
\* partition string; duplicates on either side are counted.
C1_Cardinality ==
    CorrelationReturned =>
        Len(storage_media_usb_list) = SumMatchCounts(Len(mountpoint_list))

\* C1 witness: the correlation returned with two disks and two mounts that all
\* share one partition, hence four objects.
C1_Witness ==
    /\ CorrelationReturned
    /\ \E d1, d2 \in 1..Len(media_devices_list), m1, m2 \in 1..Len(mountpoint_list) :
          /\ d1 # d2 /\ m1 # m2
          /\ SamePartition(d1, m1) /\ SamePartition(d2, m1)
          /\ SamePartition(d1, m2) /\ SamePartition(d2, m2)
    /\ Len(storage_media_usb_list) >= 4

\* C2: the returned list is ordered by Mountpoint first (mount-table order) and
\* by MediaDevice second (partition-table order).
C2_Ordering ==
    CorrelationReturned =>
        \A a, b \in 1..Len(storage_media_usb_list) :
            a < b =>
                \/ storage_media_usb_list[a].mountpoint < storage_media_usb_list[b].mountpoint
                \/ /\ storage_media_usb_list[a].mountpoint = storage_media_usb_list[b].mountpoint
                   /\ storage_media_usb_list[a].media_device < storage_media_usb_list[b].media_device

\* C2 witness: the returned list holds two objects of one Mountpoint and objects
\* of two different Mountpoints.
C2_Witness ==
    /\ CorrelationReturned
    /\ \E a, b \in 1..Len(storage_media_usb_list) :
          /\ a # b
          /\ storage_media_usb_list[a].mountpoint = storage_media_usb_list[b].mountpoint
    /\ \E a, b \in 1..Len(storage_media_usb_list) :
          storage_media_usb_list[a].mountpoint # storage_media_usb_list[b].mountpoint

\* The pairs the passes of the outer loop made so far have emitted.
EmittedPairs ==
    {<<storage_media_usb_list[k].mountpoint, storage_media_usb_list[k].media_device>> :
        k \in 1..Len(storage_media_usb_list)}

\* C3: a Mountpoint whose partition equals no MediaDevice's partition contributes
\* no object and raises no error: the loop never raises, and what it has emitted is
\* exactly the matching pairs of the Mountpoints it has passed.
C3_UnmatchedDropped ==
    /\ [](pc \in {"correlate", "print", "exit"} =>
            EmittedPairs = {md \in (1..(mount_idx - 1)) \X (1..Len(media_devices_list)) :
                               SamePartition(md[2], md[1])})
    /\ [][pc = "correlate" => pc' \in {"correlate", "print"}]_vars

\* C3 witness: the correlation returned, the first Mountpoint matched no disk and
\* a later one has its object in the list.
C3_Witness ==
    /\ CorrelationReturned
    /\ Len(mountpoint_list) >= 2
    /\ MatchCount(1) = 0
    /\ \E k \in 1..Len(storage_media_usb_list) : storage_media_usb_list[k].mountpoint = 2

\* C4: mount_partition() returns the mounted state its call leaves: True whenever
\* media_path is a mount point when the call finishes, already mounted or not,
\* and False whenever it is not.
C4_ReturnsMountedState ==
    ret.op = "mount_partition" =>
        ret.value = PyBool(IsMounted(media_devices_list[ret.dev]))

\* Whether `needle` occurs anywhere in `hay`.
Contains(hay, needle) ==
    \E i \in 1..Len(hay) :
        i + Len(needle) - 1 <= Len(hay) /\ Sub(hay, i, i + Len(needle) - 1) = needle

\* The rows of /proc/partitions after the header lines, as their words.
ListedRows ==
    LET all == ReadLines(proc_partitions) IN
    [i \in 1..(Len(all) - HeaderLines) |-> PySplitWs(all[i + HeaderLines])]

Qualifies(words) ==
    /\ PyIntOf(words[2]) % MinorsPerDisk = 0
    /\ words[4] \in DOMAIN class_block
    /\ class_block[words[4]].islink
    /\ Contains(class_block[words[4]].realpath, UsbMarker)

RECURSIVE QualifyingDevices(_)
QualifyingDevices(rs) ==
    IF rs = <<>> THEN <<>>
    ELSE (IF Qualifies(Head(rs)) THEN <<DevPath(Head(rs)[4])>> ELSE <<>>)
         \o QualifyingDevices(Tail(rs))

\* C5: probe_media_devices returns, in listing order, one device for each row
\* after the two header lines whose minor number is a multiple of 16 and whose
\* class link resolves to a path holding "/usb", and none for any other row.
C5_WholeUsbDisks ==
    (pc = "construct" \/ DevicesReturned) =>
        /\ devices = QualifyingDevices(ListedRows)
        /\ DevicesReturned =>
              [i \in 1..Len(media_devices_list) |-> media_devices_list[i].device] = devices

\* C5 witness: the list returned holds a disk although the listing also held a
\* partition row (minor not a multiple of 16) whose class link holds "/usb".
C5_Witness ==
    /\ DevicesReturned
    /\ Len(media_devices_list) >= 1
    /\ \E i \in 1..Len(ListedRows) :
          /\ PyIntOf(ListedRows[i][2]) % MinorsPerDisk # 0
          /\ Contains(class_block[ListedRows[i][4]].realpath, UsbMarker)

\* C6: for each of removable, size, vendor and model of a constructed MediaDevice,
\* the field is None exactly when the attribute file is absent; a present file
\* gives a bool, an int or a str, False, 0 and "" included.
C6_UnknownSentinel ==
    \A i \in 1..Len(media_devices_list) :
        LET d == media_devices_list[i]
            dir == sys_block[d.device_name]
        IN /\ IsNone(d.removable) <=> ~dir.removable.exists
           /\ IsNone(d.size) <=> ~dir.size.exists
           /\ IsNone(d.vendor) <=> ~dir.vendor.exists
           /\ IsNone(d.model) <=> ~dir.model.exists
           /\ dir.removable.exists => d.removable.t = "bool"
           /\ dir.size.exists => d.size.t = "int"
           /\ dir.vendor.exists => d.vendor.t = "str"
           /\ dir.model.exists => d.model.t = "str"

\* C6 witness: one disk with removable False, size 0 and vendor "" from present
\* files and an absent model file, beside a disk whose vendor file is absent.
C6_Witness ==
    \E i, j \in 1..Len(media_devices_list) :
        /\ media_devices_list[i].removable = PyBool(FALSE)
        /\ media_devices_list[i].size = PyInt(0)
        /\ media_devices_list[i].vendor = PyStr(<<>>)
        /\ IsNone(media_devices_list[i].model)
        /\ IsNone(media_devices_list[j].vendor)

\* Whether the line has the shape "<source> on <mountpoint> type <fstype> <details>"
\* with four non-empty fields.
MatchesPattern(line) ==
    \E a \in 1..Len(line) :
        /\ a + 3 <= Len(line)
        /\ Sub(line, a + 1, a + 3) = LitOn
        /\ \E b \in (a + 4)..Len(line) :
              /\ b + 3 <= Len(line)
              /\ Sub(line, b + 1, b + 3) = LitType
              /\ \E c \in (b + 4)..Len(line) :
                    /\ c + 1 < Len(line)
                    /\ line[c + 1] = " "

Malformed(ls) == \E i \in 1..Len(ls) : ls[i] # <<>> /\ ~MatchesPattern(ls[i])

\* C7: when a non-empty line of the mount output does not match the pattern, the
\* probing raises and returns nothing: probe_mountpoints never returns its list,
\* no StorageMediaUsb is made, and a program that stopped stopped on the TypeError.
C7_MalformedLineFatal ==
    /\ []((entry = "main" /\ mount_cmd.exit = 0 /\ Malformed(PySplit(mount_cmd.out, "\n"))) =>
            /\ pc \in {"start", "probe_mountpoints", "raised"}
            /\ pc = "probe_mountpoints" => Malformed(lines)
            /\ pc = "raised" => error = "TypeError"
            /\ storage_media_usb_list = <<>>
            /\ printed = <<>>)
    /\ [][(pc = "probe_mountpoints" /\ lines # <<>> /\ Malformed(<<Head(lines)>>)) =>
             (pc' = "raised" /\ error' = "TypeError")]_vars

\* C7 witness: the probing raised on a malformed line after a well-formed line
\* had been parsed.
C7_Witness ==
    /\ pc = "raised"
    /\ error = "TypeError"
    /\ Len(mountpoint_list) >= 1
    /\ Malformed(lines)

\* The fdisk answer for the disk of a MediaDevice.
FdiskOf(d) == fdisk_cmd[d.device_name]

\* The text lines of an output: each ends at a "\n" or at the end of the output;
\* an output that ends with "\n" has no further, empty line after it.
TextLines(out) == [i \in DOMAIN ReadLines(out) |-> RStrip(ReadLines(out)[i])]

EndsWithNewline(out) == out # <<>> /\ out[Len(out)] = "\n"

FirstToken(line) == PySplitWs(line)[1]

\* The piece of the output in front of its last "\n".
LastNewline(out) == CHOOSE i \in 1..Len(out) : out[i] = "\n" /\ \A j \in (i + 1)..Len(out) : out[j] # "\n"

LineBeforeLastNewline(out) ==
    LET e == LastNewline(out)
        starts == {i \in 1..e : \A j \in i..(e - 1) : out[j] # "\n"}
    IN Sub(out, CHOOSE i \in starts : \A j \in starts : i <= j, e - 1)

\* Whether the partition can be read at all: the output holds a "\n" and the piece
\* in front of the last one holds a token.
Readable(out) ==
    /\ \E i \in 1..Len(out) : out[i] = "\n"
    /\ \E i \in 1..Len(LineBeforeLastNewline(out)) : LineBeforeLastNewline(out)[i] \notin Whitespace

\* Whether the output has the shape the probe is used for: the token read is a
\* partition identifier.
ExpectedShape(out) == Readable(out) /\ FirstToken(LineBeforeLastNewline(out)) \in PartitionIds

\* C8 as stated: every MediaDevice made comes from a probe that exited 0 with an
\* output of the expected shape; a failed probe gives no object.
C8_NoDeviceFromFailedProbe ==
    \A i \in 1..Len(media_devices_list) :
        /\ FdiskOf(media_devices_list[i]).exit = 0
        /\ ExpectedShape(FdiskOf(media_devices_list[i]).out)

\* C8 amended: a MediaDevice is made only from a probe that exited 0 and whose
\* output holds a "\n" with a token in front of the last one, and its partition is
\* that token, partition identifier or not; a probe that exited non-zero or whose
\* output cannot be read so raises, and then no list of devices is returned.
C8_NoDeviceFromUnreadableProbe ==
    /\ [](\A i \in 1..Len(media_devices_list) :
            /\ FdiskOf(media_devices_list[i]).exit = 0
            /\ Readable(FdiskOf(media_devices_list[i]).out)
            /\ media_devices_list[i].partition =
                   FirstToken(LineBeforeLastNewline(FdiskOf(media_devices_list[i]).out)))
    /\ [][(pc = "construct" /\ todo # <<>>) =>
             LET f == fdisk_cmd[Basename(Head(todo))] IN
             /\ f.exit # 0 =>
                   (pc' = "raised" /\ error' = "CalledProcessError"
                       /\ media_devices_list' = media_devices_list)
             /\ (f.exit = 0 /\ ~Readable(f.out)) =>
                   (pc' = "raised" /\ error' = "IndexError"
                       /\ media_devices_list' = media_devices_list)
             /\ (f.exit = 0 /\ Readable(f.out)) =>
                   (pc' = "construct" /\ Len(media_devices_list') = Len(media_devices_list) + 1)]_vars
    /\ [][pc = "raised" => pc' = "raised"]_vars

\* C8 witness: one disk was constructed, the probe of the next one exited
\* non-zero, and the program raised without returning a list.
C8_Witness ==
    /\ pc = "raised"
    /\ error = "CalledProcessError"
    /\ Len(media_devices_list) >= 1
    /\ todo # <<>>
    /\ fdisk_cmd[Basename(Head(todo))].exit # 0

\* C9 as stated: the partition of every MediaDevice is the first token of the
\* second-to-last line of the probe's output, trailing newline or not.
C9_SecondToLastLine ==
    \A i \in 1..Len(media_devices_list) :
        LET ls == TextLines(FdiskOf(media_devices_list[i]).out) IN
        /\ Len(ls) >= 2
        /\ PySplitWs(ls[Len(ls) - 1]) # <<>>
        /\ media_devices_list[i].partition = FirstToken(ls[Len(ls) - 1])

\* C9 amended: the partition of every MediaDevice is the first token of the last
\* line of the probe's output when the output ends with a newline, and of the
\* second-to-last line when it does not.
C9_LineBeforeLastNewline ==
    \A i \in 1..Len(media_devices_list) :
        LET out == FdiskOf(media_devices_list[i]).out
            ls == TextLines(out)
            n == IF EndsWithNewline(out) THEN Len(ls) ELSE Len(ls) - 1
        IN /\ n >= 1
           /\ PySplitWs(ls[n]) # <<>>
           /\ media_devices_list[i].partition = FirstToken(ls[n])

\* C9 witness: two disks were constructed, one from an output that ends with a
\* newline and one from an output that does not.
C9_Witness ==
    \E i, j \in 1..Len(media_devices_list) :
        /\ EndsWithNewline(FdiskOf(media_devices_list[i]).out)
        /\ ~EndsWithNewline(FdiskOf(media_devices_list[j]).out)

\* The keys of the digest, in the order of the report.
DigestKeys ==
    <<"mountpoint", "partition", "size_bytes", "size_gb", "format", "model", "vendor",
      "device_name", "block_path", "media_path">>

\* The value the digest reports under a key.
DigestValue(key, usb) ==
    LET md == media_devices_list[usb.media_device]
        mp == mountpoint_list[usb.mountpoint]
    IN CASE key = "mountpoint" -> mp.mountpoint
         [] key = "partition" -> mp.partition
         [] key = "size_bytes" -> DigitsOf(md.size.n)
         [] key = "size_gb" -> PyFormat(PyFloat(md.size.n, BytesPerGb))
         [] key = "format" -> mp.fs_format
         [] key = "model" -> IF IsNone(md.model) THEN <<"None">> ELSE md.model.s
         [] key = "vendor" -> IF IsNone(md.vendor) THEN <<"None">> ELSE md.vendor.s
         [] key = "device_name" -> md.device_name
         [] key = "block_path" -> md.block_path
         [] key = "media_path" -> md.media_path

RECURSIVE ReportOf(_, _)
ReportOf(keys, usb) ==
    IF keys = <<>> THEN <<>>
    ELSE <<Head(keys), ":">> \o DigestValue(Head(keys), usb) \o
         (IF Len(keys) = 1 THEN <<>> ELSE <<" ">> \o ReportOf(Tail(keys), usb))

SizeKnown(usb) == ~IsNone(media_devices_list[usb.media_device].size)

\* C10: every digest printed is of an object whose disk size is known and holds
\* the ten fields in the fixed order; a digest raises TypeError exactly for an
\* object whose disk size is None, unknown vendor or model never make it raise.
C10_DigestNeedsSize ==
    /\ [](\A k \in 1..Len(printed) :
            /\ SizeKnown(storage_media_usb_list[k])
            /\ printed[k] = ReportOf(DigestKeys, storage_media_usb_list[k]))
    /\ [][(pc = "print" /\ Len(printed) < Len(storage_media_usb_list)) =>
             IF SizeKnown(storage_media_usb_list[Len(printed) + 1])
             THEN pc' = "print" /\ Len(printed') = Len(printed) + 1
             ELSE pc' = "raised" /\ error' = "TypeError" /\ printed' = printed]_vars

\* C10 witness: the digest of an object with unknown vendor and model was printed
\* and the digest of the next object, of a disk of unknown size, raised.
C10_Witness ==
    /\ pc = "raised"
    /\ error = "TypeError"
    /\ Len(printed) >= 1
    /\ IsNone(media_devices_list[storage_media_usb_list[1].media_device].vendor)
    /\ IsNone(media_devices_list[storage_media_usb_list[1].media_device].model)
    /\ ~SizeKnown(storage_media_usb_list[Len(printed) + 1])

====
